---- MODULE Spec2Model ----
(***************************************************************************)
(* A model of the lightbulb tool server of src/src/main.rs: the boolean    *)
(* light_state, the two Logger implementations (FileLogger over the file   *)
(* lightbulb.log, InMemoryLogger over a VecDeque of lines) and the         *)
(* handlers of LightService.                                               *)
(*                                                                         *)
(* Text is a sequence of tokens (strings): a token is a piece of text the  *)
(* program never looks inside, so that formatting, line splitting and      *)
(* substring search are computed on the sequence.                          *)
(***************************************************************************)
EXTENDS Integers, Sequences, FiniteSets, TLC

\* ------------------------------------------------------------------ bounds

\* How many handler invocations one run makes.
MaxCalls == 3
\* How many distinct readings Utc::now() can give.
MaxTime == 2
\* How many lines the logs that the summary is generated over hold at most.
MaxLines == 6

\* --------------------------------------------------------------- constants

LIGHTBULB_ON_STATUS == "The lightbulb is on"
LIGHTBULB_OFF_STATUS == "The lightbulb is off"
LIGHTBULB_ALREADY_ON == "The lightbulb is already on"
LIGHTBULB_ALREADY_OFF == "The lightbulb is already off"
LIGHTBULB_TURNED_ON == "Lightbulb turned on successfully"
LIGHTBULB_TURNED_OFF == "Lightbulb turned off successfully"
LOG_ACTION_ON == "ON"
LOG_ACTION_OFF == "OFF"

LOG_URI == "lightbulb://log"
SUMMARY_URI == "lightbulb://summary"
\* The locators a client sends: the two known ones and two unknown ones.
Uris == {LOG_URI, SUMMARY_URI, "lightbulb://status", ""}

INVALID_PARAMS == -32602
UNKNOWN_RESOURCE_URI == "Unknown resource URI"

\* The line terminator, and the other tokens of a log line.
NL == "\n"
LBRACKET == "["
RBRACKET == "]"
TURNED == " Lightbulb turned "

\* Utc::now().to_rfc3339(): one of MaxTime readings (the wall clock is an
\* input; nothing makes it monotonic).
Rfc3339(n) == "2026-01-01T00:00:0" \o ToString(n) \o "+00:00"
Timestamps == {Rfc3339(n) : n \in 1..MaxTime}

\* The causes of an I/O failure, as std::io::Error displays them.
NOT_FOUND == "No such file or directory (os error 2)"
PERMISSION_DENIED == "Permission denied (os error 13)"
NO_SPACE == "No space left on device (os error 28)"

\* ------------------------------------------------------------------- text

RECURSIVE Concat(_)
\* The concatenation of a sequence of texts.
Concat(ss) == IF ss = <<>> THEN <<>> ELSE Head(ss) \o Concat(Tail(ss))

\* Result values: Ok(text), Err(text), and the protocol's ErrorData.
Ok(text) == [ok |-> TRUE, text |-> text, code |-> 0]
Err(text) == [ok |-> FALSE, text |-> text, code |-> 0]
ErrorData(code, message) == [ok |-> FALSE, text |-> <<message>>, code |-> code]
NoResult == [ok |-> TRUE, text |-> <<>>, code |-> 0]

\* ---------------------------------------------------------------- loggers

\* FileLogger::log_event's log_entry.
FileLogEntry(timestamp, action) ==
    <<LBRACKET, timestamp, RBRACKET, TURNED, action, NL>>

\* InMemoryLogger::log_event's log_entry.
MemLogEntry(timestamp, action) ==
    <<LBRACKET, timestamp, RBRACKET, TURNED, action>>

\* What the file system does to one FileLogger::log_event: open(create,
\* append) fails, or it succeeds and write_all gets `written` tokens of the
\* entry into the file before it returns (all of them: success).
EntryLen == Len(FileLogEntry("", ""))
IoOutcomes ==
    {[open_ok |-> FALSE, written |-> 0]}
        \cup {[open_ok |-> TRUE, written |-> k] : k \in 0..EntryLen}

\* FileLogger::log_event had the file been opened without append(true): the
\* entry replaces what the file held.
FileLogEvent_Truncating(exists, data, timestamp, action, io) ==
    LET log_entry == FileLogEntry(timestamp, action) IN
    IF ~io.open_ok
    THEN [exists |-> exists, data |-> data, ok |-> FALSE,
          err |-> PERMISSION_DENIED]
    ELSE [exists |-> TRUE,
          data |-> SubSeq(log_entry, 1, io.written),
          ok |-> io.written = Len(log_entry),
          err |-> IF io.written = Len(log_entry) THEN "" ELSE NO_SPACE]

\* FileLogger::log_event on the file (exists, data).
FileLogEvent(exists, data, timestamp, action, io) ==
    LET log_entry == FileLogEntry(timestamp, action) IN
    IF ~io.open_ok
    THEN [exists |-> exists, data |-> data, ok |-> FALSE,
          err |-> PERMISSION_DENIED]
    ELSE [exists |-> TRUE,
          data |-> data \o SubSeq(log_entry, 1, io.written),
          ok |-> io.written = Len(log_entry),
          err |-> IF io.written = Len(log_entry) THEN "" ELSE NO_SPACE]

\* FileLogger::read_log: read_to_string of the file; read_fails is an I/O
\* failure of the environment on a file that exists.
FileReadLog(exists, data, read_fails) ==
    IF ~exists THEN [ok |-> FALSE, text |-> <<>>, err |-> NOT_FOUND]
    ELSE IF read_fails
    THEN [ok |-> FALSE, text |-> <<>>, err |-> PERMISSION_DENIED]
    ELSE [ok |-> TRUE, text |-> data, err |-> ""]

\* InMemoryLogger::log_event.
MemLogEvent(es, timestamp, action) ==
    [entries |-> Append(es, MemLogEntry(timestamp, action)), ok |-> TRUE,
     err |-> ""]

\* InMemoryLogger::read_log had it collected the entries without the "\n" it
\* formats after each.
MemReadLog_NoTerminator(es) ==
    [ok |-> TRUE, text |-> Concat(es), err |-> ""]

\* InMemoryLogger::read_log.
MemReadLog(es) ==
    [ok |-> TRUE,
     text |-> Concat([i \in 1..Len(es) |-> es[i] \o <<NL>>]),
     err |-> ""]

\* ------------------------------------------------- text the handlers read

\* The tokens char::is_whitespace holds of.
Whitespace == {NL, " "}

\* str::trim().is_empty().
IsBlank(text) == \A i \in 1..Len(text) : text[i] \in Whitespace

RECURSIVE SplitLines(_, _)
\* str::lines(), with cur the line being read: a line ends at its
\* terminator, and a last line without one is a line when it is not empty.
SplitLines(text, cur) ==
    IF text = <<>> THEN (IF cur = <<>> THEN <<>> ELSE <<cur>>)
    ELSE IF Head(text) = NL THEN <<cur>> \o SplitLines(Tail(text), <<>>)
    ELSE SplitLines(Tail(text), Append(cur, Head(text)))

Lines(text) == SplitLines(text, <<>>)

\* log_content.lines().filter(|line| !line.trim().is_empty()).
NonBlankLines(text) == SelectSeq(Lines(text), LAMBDA line : ~IsBlank(line))

\* line.contains("turned ON") / line.contains("turned OFF"): the needle
\* lies across the end of the TURNED token and the action after it.
ContainsTurned(line, action) ==
    \E i \in 1..(Len(line) - 1) : line[i] = TURNED /\ line[i + 1] = action

CountTurned(lines, action) ==
    Cardinality({i \in 1..Len(lines) : ContainsTurned(lines[i], action)})

RECURSIVE BeforeFirst(_, _)
\* line.split(sep).next(): the text before the first sep, the whole line
\* when it holds none.
BeforeFirst(line, sep) ==
    IF line = <<>> \/ Head(line) = sep THEN <<>>
    ELSE <<Head(line)>> \o BeforeFirst(Tail(line), sep)

RECURSIVE TrimStartMatches(_, _)
\* str::trim_start_matches(c): every leading c removed.
TrimStartMatches(text, c) ==
    IF text # <<>> /\ Head(text) = c THEN TrimStartMatches(Tail(text), c)
    ELSE text

\* The timestamp the summary reports for a line.
ActionTimestamp(line) == TrimStartMatches(BeforeFirst(line, RBRACKET), LBRACKET)

RECENT_COUNT == 5

\* The recent lines without the second rev(): the newest line first.
Recent_NewestFirst(lines) ==
    LET n == IF Len(lines) <= RECENT_COUNT THEN Len(lines) ELSE RECENT_COUNT
    IN  [i \in 1..n |-> lines[Len(lines) - i + 1]]

\* lines.iter().rev().take(5).rev().
Recent(lines) ==
    IF Len(lines) <= RECENT_COUNT THEN lines
    ELSE SubSeq(lines, Len(lines) - RECENT_COUNT + 1, Len(lines))

RECURSIVE Join(_, _)
\* Vec<String>::join(sep).
Join(ss, sep) ==
    IF ss = <<>> THEN <<>>
    ELSE IF Len(ss) = 1 THEN Head(ss)
    ELSE Head(ss) \o <<sep>> \o Join(Tail(ss), sep)

\* The percentage had {:.1} cut the digits after the first decimal off.
PercentTenths_Truncated(count, total) == (count * 1000) \div total

\* count/total * 100 in tenths, rounded to the nearest tenth (a tie to the
\* even one), as {:.1} prints it.
PercentTenths(count, total) ==
    LET q == (count * 1000) \div total
        r == (count * 1000) % total
    IN  IF 2 * r > total THEN q + 1
        ELSE IF 2 * r = total THEN q + (q % 2)
        ELSE q

\* format!("{:.1}", percentage).
Percent(count, total) ==
    LET t == IF total > 0 THEN PercentTenths(count, total) ELSE 0
    IN  ToString(t \div 10) \o "." \o ToString(t % 10)

SUMMARY_NOT_FOUND ==
    "Lightbulb Usage Summary:\n\nLog file not found. No activity recorded yet."
SUMMARY_EMPTY == "Lightbulb Usage Summary:\n\nNo activity recorded yet."

\* generate_usage_summary had its Err arm returned the literal of the empty
\* log.
UsageSummary_OneLiteral(log, state) ==
    IF ~log.ok \/ NonBlankLines(log.text) = <<>> THEN <<SUMMARY_EMPTY>>
    ELSE <<"Lightbulb Usage Summary:\n\nCurrent Status: ",
           IF state THEN "ON" ELSE "OFF">>

\* generate_usage_summary on the result of read_log_content and the flag
\* it reads after it.
UsageSummary(log, state) ==
    IF ~log.ok THEN <<SUMMARY_NOT_FOUND>>
    ELSE
    LET lines == NonBlankLines(log.text)
        total_actions == Len(lines)
        on_actions == CountTurned(lines, LOG_ACTION_ON)
        off_actions == CountTurned(lines, LOG_ACTION_OFF)
        current_status == IF state THEN "ON" ELSE "OFF"
    IN  IF lines = <<>> THEN <<SUMMARY_EMPTY>>
        ELSE <<"Lightbulb Usage Summary:\n\nCurrent Status: ", current_status,
               "\nTotal Actions: ", ToString(total_actions),
               "\n- Turn ON actions: ", ToString(on_actions),
               " (", Percent(on_actions, total_actions),
               "%)\n- Turn OFF actions: ", ToString(off_actions),
               " (", Percent(off_actions, total_actions),
               "%)\n\nActivity Period:\n- First action: ">>
             \o ActionTimestamp(lines[1])
             \o <<"\n- Last action: ">>
             \o ActionTimestamp(lines[Len(lines)])
             \o <<"\n\nRecent Activity (last 5 actions):\n">>
             \o Join([i \in 1..Len(Recent(lines)) |->
                         <<"  ">> \o Recent(lines)[i]], NL)

LOG_EMPTY == "No lightbulb activity recorded yet."
LOG_NOT_FOUND == "Lightbulb log file not found. No activity recorded yet."
LOG_HEADER == "Lightbulb Activity Log:\n\n"

\* read_resource's content for lightbulb://log.
LogResource(log) ==
    IF ~log.ok THEN <<LOG_NOT_FOUND>>
    ELSE IF IsBlank(log.text) THEN <<LOG_EMPTY>>
    ELSE <<LOG_HEADER>> \o log.text

\* ------------------------------------------------------------------ state

VARIABLES
    light_state,   \* LightService.light_state: the flag
    logger_kind,   \* which Logger LightService.logger holds
    entries,       \* InMemoryLogger.entries
    file_exists,   \* whether FileLogger.file_path names a file
    file_data,     \* the contents of that file
    op,            \* the handler that ran last
    request_uri,   \* the uri of its request (read_resource)
    ret,           \* what it returned
    ncalls,        \* how many handlers have run
    prev,          \* the handler that ran before the last, and what it returned
    flips,         \* the actions of the calls that changed light_state
    logged,        \* the (timestamp, action) of the log_event calls that returned Ok
    initial_data,  \* the contents of the log when the service was constructed
    twin,          \* a second LightService, on an InMemoryLogger, given the same calls
    threads,       \* the handler invocations in progress: where each is, and its locals
    flag_lock,     \* the holder of the Mutex of light_state
    logger_lock    \* the holder of the Mutex of logger

vars == <<light_state, logger_kind, entries, file_exists, file_data, op,
          request_uri, ret, ncalls, prev, flips, logged, initial_data,
          twin, threads, flag_lock, logger_lock>>

FILE_LOGGER == "FileLogger"
IN_MEMORY_LOGGER == "InMemoryLogger"
NO_URI == "(no uri)"

\* What lightbulb.log can hold when the process starts: the lines of earlier
\* runs, nothing, a blank line, or a line this program did not write.
PreExisting ==
    {<<>>,
     <<NL>>,
     <<"# lights", NL>>,
     FileLogEntry(Rfc3339(1), LOG_ACTION_ON),
     FileLogEntry(Rfc3339(1), LOG_ACTION_ON)
        \o FileLogEntry(Rfc3339(1), LOG_ACTION_OFF)}

\* The invocations the framework can have in progress at once.
Handlers == {"h1", "h2", "h3"}

\* No holder of a Mutex.
NO_HOLDER == "(unlocked)"

\* An invocation slot with no handler in it.
Idle ==
    [pc |-> "idle", op |-> "none", uri |-> NO_URI,
     log |-> [ok |-> TRUE, text |-> <<>>, err |-> ""], flip |-> 0]

\* No second service.
NoTwin == [present |-> FALSE, light_state |-> FALSE, ret |-> NoResult]

\* A service as constructed: no invocation in progress, both Mutexes free.
NothingRunning ==
    /\ threads = [h \in Handlers |-> Idle]
    /\ flag_lock = NO_HOLDER
    /\ logger_lock = NO_HOLDER

\* new_with_logger had it built the flag as Mutex::new(true).
NewLightState_On == TRUE

\* LightService::new_with_logger: the flag starts false, whatever logger.
NewLightState == FALSE

\* main / LightService::new (a FileLogger on lightbulb.log, which may or may
\* not exist) and LightService::new_with_in_memory_logger.
Init ==
    /\ light_state = NewLightState
    /\ \/ /\ logger_kind = FILE_LOGGER
          /\ \/ file_exists = FALSE /\ file_data = <<>>
             \/ file_exists = TRUE /\ file_data \in PreExisting
       \/ /\ logger_kind = IN_MEMORY_LOGGER
          /\ file_exists = FALSE /\ file_data = <<>>
    /\ entries = <<>>
    /\ initial_data = file_data
    /\ op = "new"
    /\ request_uri = NO_URI
    /\ ret = NoResult
    /\ ncalls = 0
    /\ prev = [op |-> "new", ret |-> NoResult]
    /\ flips = <<>>
    /\ logged = <<>>
    /\ twin = NoTwin
    /\ NothingRunning

\* ---------------------------------------------------------------- helpers

\* log_light_event: logger.log_event(action) on whichever Logger is held.
\* The result carries the logger's state after the call.
LogLightEvent(kind, es, exists, data, timestamp, action, io) ==
    IF kind = FILE_LOGGER
    THEN LET r == FileLogEvent(exists, data, timestamp, action, io)
         IN  [entries |-> es, exists |-> r.exists, data |-> r.data,
              ok |-> r.ok, err |-> r.err]
    ELSE LET r == MemLogEvent(es, timestamp, action)
         IN  [entries |-> r.entries, exists |-> exists, data |-> data,
              ok |-> r.ok, err |-> r.err]

\* read_log_content: logger.read_log() on whichever Logger is held.
ReadLogContent(kind, es, exists, data, read_fails) ==
    IF kind = FILE_LOGGER THEN FileReadLog(exists, data, read_fails)
    ELSE MemReadLog(es)

\* The log as read_log returns it now (no I/O failure); the empty text when
\* there is no file.
LogText == ReadLogContent(logger_kind, entries, file_exists, file_data, FALSE).text

\* get_lightbulb_status with the two branches of its `if` exchanged.
StatusOf_Inverted(state) ==
    IF state THEN LIGHTBULB_OFF_STATUS ELSE LIGHTBULB_ON_STATUS

\* get_lightbulb_status's answer for a flag.
StatusOf(state) == IF state THEN LIGHTBULB_ON_STATUS ELSE LIGHTBULB_OFF_STATUS

\* change_lightbulb_state without its `*state = target_state`.
StateAfterChange_Kept(state, target_state, log_ok) == state

\* change_lightbulb_state had it set the flag only once the log write
\* succeeded.
StateAfterChange_AfterLog(state, target_state, log_ok) ==
    IF log_ok THEN target_state ELSE state

\* change_lightbulb_state, the flag: `*state = target_state` comes before
\* the log write and nothing undoes it when the write fails.
StateAfterChange(state, target_state, log_ok) == target_state

\* change_lightbulb_state, the value returned after the log write.
ChangeResult(success_message, log_ok, err) ==
    IF log_ok THEN Ok(<<success_message>>)
    ELSE Err(<<"Failed to log event: ", err>>)

\* change_lightbulb_state without the `already` branch.
IsAlready_Never(state, target_state) == FALSE

\* change_lightbulb_state: whether the call takes the `already` branch.
IsAlready(state, target_state) == state = target_state

\* ---------------------------------------------------------------- actions

Called(name, uri) ==
    /\ ncalls < MaxCalls
    /\ ncalls' = ncalls + 1
    /\ op' = name
    /\ request_uri' = uri
    /\ prev' = [op |-> op, ret |-> ret]

GetLightbulbStatus ==
    /\ Called("get_lightbulb_status", NO_URI)
    /\ ret' = Ok(<<StatusOf(light_state)>>)
    /\ UNCHANGED <<light_state, logger_kind, entries, file_exists, file_data,
                   flips, logged, initial_data>>
    /\ UNCHANGED <<twin, threads, flag_lock, logger_lock>>

ChangeLightbulbState(name, target_state, already_message, success_message, log_action) ==
    /\ Called(name, NO_URI)
    /\ IF IsAlready(light_state, target_state)
       THEN /\ ret' = Ok(<<already_message>>)
            /\ UNCHANGED <<light_state, entries, file_exists, file_data,
                           flips, logged>>
       ELSE \E timestamp \in Timestamps, io \in IoOutcomes :
            LET r == LogLightEvent(logger_kind, entries, file_exists,
                                   file_data, timestamp, log_action, io)
            IN  /\ light_state' = StateAfterChange(light_state, target_state, r.ok)
                /\ entries' = r.entries
                /\ file_exists' = r.exists
                /\ file_data' = r.data
                /\ flips' = IF light_state' # light_state
                            THEN Append(flips, log_action) ELSE flips
                /\ logged' = IF r.ok
                             THEN Append(logged, [timestamp |-> timestamp,
                                                  action |-> log_action])
                             ELSE logged
                /\ ret' = ChangeResult(success_message, r.ok, r.err)
    /\ UNCHANGED <<logger_kind, initial_data>>
    /\ UNCHANGED <<twin, threads, flag_lock, logger_lock>>

TurnOnLightbulb ==
    ChangeLightbulbState("turn_on_lightbulb", TRUE, LIGHTBULB_ALREADY_ON,
                         LIGHTBULB_TURNED_ON, LOG_ACTION_ON)

TurnOffLightbulb ==
    ChangeLightbulbState("turn_off_lightbulb", FALSE, LIGHTBULB_ALREADY_OFF,
                         LIGHTBULB_TURNED_OFF, LOG_ACTION_OFF)

ListResources ==
    /\ Called("list_resources", NO_URI)
    /\ ret' = Ok(<<LOG_URI, SUMMARY_URI>>)
    /\ UNCHANGED <<light_state, logger_kind, entries, file_exists, file_data,
                   flips, logged, initial_data>>
    /\ UNCHANGED <<twin, threads, flag_lock, logger_lock>>

\* read_resource had its last arm served the summary instead of the error.
ResourceResult_SummaryByDefault(uri, log, state) ==
    IF uri = LOG_URI THEN Ok(LogResource(log))
    ELSE Ok(UsageSummary(log, state))

\* read_resource had it passed a failure of read_log_content on with `?`.
ResourceResult_ErrSurfaced(uri, log, state) ==
    IF uri = LOG_URI
    THEN (IF log.ok THEN Ok(LogResource(log)) ELSE ErrorData(-32603, log.err))
    ELSE IF uri = SUMMARY_URI THEN Ok(UsageSummary(log, state))
    ELSE ErrorData(INVALID_PARAMS, UNKNOWN_RESOURCE_URI)

\* read_resource's result for a uri, given what read_log_content returns
\* and the flag.
ResourceResult(uri, log, state) ==
    IF uri = LOG_URI THEN Ok(LogResource(log))
    ELSE IF uri = SUMMARY_URI THEN Ok(UsageSummary(log, state))
    ELSE ErrorData(INVALID_PARAMS, UNKNOWN_RESOURCE_URI)

ReadResource ==
    \E uri \in Uris, read_fails \in BOOLEAN :
        /\ Called("read_resource", uri)
        /\ ret' = ResourceResult(uri,
                    ReadLogContent(logger_kind, entries, file_exists,
                                   file_data, read_fails),
                    light_state)
        /\ UNCHANGED <<light_state, logger_kind, entries, file_exists,
                       file_data, flips, logged, initial_data>>
        /\ UNCHANGED <<twin, threads, flag_lock, logger_lock>>

Next ==
    \/ GetLightbulbStatus
    \/ TurnOnLightbulb
    \/ TurnOffLightbulb
    \/ ListResources
    \/ ReadResource

Spec == Init /\ [][Next]_vars

\* ------------------------------------------- the summary over longer logs

\* The lines of the logs the summary is generated over: the two entries
\* log_event writes, a line this program did not write (no "]"), and a
\* blank line.
LineKinds ==
    {MemLogEntry(Rfc3339(1), LOG_ACTION_ON),
     MemLogEntry(Rfc3339(2), LOG_ACTION_OFF),
     <<"# lights">>,
     <<>>}

\* The entries among them: what InMemoryLogger.entries can hold.
EntryKinds == {line \in LineKinds : ContainsTurned(line, LOG_ACTION_ON) \/ ContainsTurned(line, LOG_ACTION_OFF)}

SeqsUpTo(S, n) == UNION {[1..k -> S] : k \in 0..n}

\* A service at any point of a long run: the flag either way, and a log of
\* up to MaxLines lines behind either logger.
InitSummary ==
    /\ light_state \in BOOLEAN
    /\ \/ /\ logger_kind = FILE_LOGGER
          /\ file_exists = TRUE
          /\ \E ls \in SeqsUpTo(LineKinds, MaxLines) :
                 file_data = Concat([i \in 1..Len(ls) |-> ls[i] \o <<NL>>])
          /\ entries = <<>>
       \/ /\ logger_kind = IN_MEMORY_LOGGER
          /\ file_exists = FALSE /\ file_data = <<>>
          /\ entries \in SeqsUpTo(EntryKinds, MaxLines)
    /\ initial_data = file_data
    /\ op = "new"
    /\ request_uri = NO_URI
    /\ ret = NoResult
    /\ ncalls = 0
    /\ prev = [op |-> "new", ret |-> NoResult]
    /\ flips = <<>>
    /\ logged = <<>>
    /\ twin = NoTwin
    /\ NothingRunning

\* One read_resource call on it.
NextSummary == ncalls = 0 /\ ReadResource

SpecSummary == InitSummary /\ [][NextSummary]_vars

\* ------------------------------------------ the two loggers side by side

\* The file system lets FileLogger::log_event write the whole entry.
NoFailure == [open_ok |-> TRUE, written |-> EntryLen]

\* change_lightbulb_state as a function of the service it is called on: the
\* flag, the log behind the logger, and what is returned.
ChangeOutcome(kind, state, es, exists, data, target_state, already_message, success_message, log_action, timestamp, io) ==
    IF IsAlready(state, target_state)
    THEN [state |-> state, entries |-> es, exists |-> exists, data |-> data,
          ret |-> Ok(<<already_message>>)]
    ELSE LET r == LogLightEvent(kind, es, exists, data, timestamp,
                                log_action, io)
         IN  [state |-> StateAfterChange(state, target_state, r.ok),
              entries |-> r.entries, exists |-> r.exists, data |-> r.data,
              ret |-> ChangeResult(success_message, r.ok, r.err)]

\* Two services from new_with_logger: one on a FileLogger whose file does
\* not exist yet (light_state, file_exists, file_data, ret), one on an
\* InMemoryLogger (twin, entries).
InitPair ==
    /\ light_state = NewLightState
    /\ logger_kind = FILE_LOGGER
    /\ file_exists = FALSE /\ file_data = <<>>
    /\ entries = <<>>
    /\ twin = [present |-> TRUE, light_state |-> NewLightState,
               ret |-> NoResult]
    /\ initial_data = file_data
    /\ op = "new"
    /\ request_uri = NO_URI
    /\ ret = NoResult
    /\ ncalls = 0
    /\ prev = [op |-> "new", ret |-> NoResult]
    /\ flips = <<>>
    /\ logged = <<>>
    /\ NothingRunning

\* read_log on each of the two, the file system failing nothing.
ReadLogOfFile == ReadLogContent(FILE_LOGGER, <<>>, file_exists, file_data, FALSE)
ReadLogOfMemory == ReadLogContent(IN_MEMORY_LOGGER, entries, FALSE, <<>>, FALSE)

PairGetLightbulbStatus ==
    /\ Called("get_lightbulb_status", NO_URI)
    /\ ret' = Ok(<<StatusOf(light_state)>>)
    /\ twin' = [twin EXCEPT !.ret = Ok(<<StatusOf(twin.light_state)>>)]
    /\ UNCHANGED <<light_state, logger_kind, entries, file_exists, file_data,
                   flips, logged, initial_data>>
    /\ UNCHANGED <<threads, flag_lock, logger_lock>>

\* The same transition call on both, log_event reading the same clock and
\* the file write succeeding.
PairChangeLightbulbState(name, target_state, already_message, success_message, log_action) ==
    /\ Called(name, NO_URI)
    /\ \E timestamp \in Timestamps :
        LET f == ChangeOutcome(FILE_LOGGER, light_state, <<>>, file_exists,
                               file_data, target_state, already_message,
                               success_message, log_action, timestamp,
                               NoFailure)
            m == ChangeOutcome(IN_MEMORY_LOGGER, twin.light_state, entries,
                               FALSE, <<>>, target_state, already_message,
                               success_message, log_action, timestamp,
                               NoFailure)
        IN  /\ light_state' = f.state
            /\ file_exists' = f.exists
            /\ file_data' = f.data
            /\ ret' = f.ret
            /\ entries' = m.entries
            /\ twin' = [twin EXCEPT !.light_state = m.state, !.ret = m.ret]
            /\ flips' = IF f.state # light_state
                        THEN Append(flips, log_action) ELSE flips
            /\ logged' = IF f.state # light_state
                         THEN Append(logged, [timestamp |-> timestamp,
                                              action |-> log_action])
                         ELSE logged
    /\ UNCHANGED <<logger_kind, initial_data>>
    /\ UNCHANGED <<threads, flag_lock, logger_lock>>

PairTurnOnLightbulb ==
    PairChangeLightbulbState("turn_on_lightbulb", TRUE, LIGHTBULB_ALREADY_ON,
                             LIGHTBULB_TURNED_ON, LOG_ACTION_ON)

PairTurnOffLightbulb ==
    PairChangeLightbulbState("turn_off_lightbulb", FALSE,
                             LIGHTBULB_ALREADY_OFF, LIGHTBULB_TURNED_OFF,
                             LOG_ACTION_OFF)

PairReadResource ==
    \E uri \in Uris :
        /\ Called("read_resource", uri)
        /\ ret' = ResourceResult(uri, ReadLogOfFile, light_state)
        /\ twin' = [twin EXCEPT
                       !.ret = ResourceResult(uri, ReadLogOfMemory,
                                              twin.light_state)]
        /\ UNCHANGED <<light_state, logger_kind, entries, file_exists,
                       file_data, flips, logged, initial_data>>
        /\ UNCHANGED <<threads, flag_lock, logger_lock>>

NextPair ==
    \/ PairGetLightbulbStatus
    \/ PairTurnOnLightbulb
    \/ PairTurnOffLightbulb
    \/ PairReadResource

SpecPair == InitPair /\ [][NextPair]_vars

\* ------------------------------------------- handlers running concurrently
\*
\* The handlers as the framework may interleave them: each invocation is a
\* sequence of steps, one per acquisition of a Mutex and one per access to
\* what the Mutex guards. list_resources and read_resource on an unknown
\* uri touch neither Mutex and are left to Spec.

\* The calls a client can make that take a Mutex, with the first step of
\* each.
Calls ==
    {[op |-> "get_lightbulb_status", uri |-> NO_URI, pc |-> "status_lock"],
     [op |-> "turn_on_lightbulb", uri |-> NO_URI, pc |-> "change_lock"],
     [op |-> "turn_off_lightbulb", uri |-> NO_URI, pc |-> "change_lock"],
     [op |-> "read_resource", uri |-> LOG_URI, pc |-> "read_lock"],
     [op |-> "read_resource", uri |-> SUMMARY_URI, pc |-> "read_lock"]}

\* turn_on_lightbulb / turn_off_lightbulb: the arguments they pass to
\* change_lightbulb_state.
ChangeArgs(name) ==
    IF name = "turn_on_lightbulb"
    THEN [target_state |-> TRUE, already_message |-> LIGHTBULB_ALREADY_ON,
          success_message |-> LIGHTBULB_TURNED_ON,
          log_action |-> LOG_ACTION_ON]
    ELSE [target_state |-> FALSE, already_message |-> LIGHTBULB_ALREADY_OFF,
          success_message |-> LIGHTBULB_TURNED_OFF,
          log_action |-> LOG_ACTION_OFF]

\* What the file system does to a log_event in these runs: the write
\* succeeds, the open fails, or write_all fails with the entry's first token
\* in the file.
SomeIoOutcomes ==
    {NoFailure, [open_ok |-> FALSE, written |-> 0],
     [open_ok |-> TRUE, written |-> 1]}

\* The clock log_event reads in these runs: the handlers all run within
\* the same second.
Now == Rfc3339(1)

\* A MutexGuard of h going out of scope.
Release(holder, h) == IF holder = h THEN NO_HOLDER ELSE holder

\* change_lightbulb_state had it dropped `state` right after
\* `*state = target_state`, before the log write.
FlagGuardAfterSet_Dropped(h) == NO_HOLDER

\* change_lightbulb_state: the guard `state` lives until the function
\* returns, so h still holds the flag's Mutex after `*state = target_state`.
FlagGuardAfterSet(h) == h

\* generate_usage_summary had it kept read_log_content's guard on the logger
\* while it goes on to lock the flag.
LoggerGuardAfterRead_Kept(h) == h

\* read_log_content: its guard `logger` is dropped when it returns.
LoggerGuardAfterRead(h) == NO_HOLDER

\* h moves on to the step pc.
Goto(h, pc) == [threads EXCEPT ![h].pc = pc]

\* The variables a step of a handler leaves alone unless it says otherwise.
Service == <<light_state, entries, file_exists, file_data>>
Returned == <<op, request_uri, ret, prev>>
Ghosts == <<flips, logged>>
Fixed == <<logger_kind, initial_data, twin>>

\* The handler in h returns result to the framework (prev, the call before
\* the last of a service whose handlers run one at a time, is not kept).
Return(h, result) ==
    /\ op' = threads[h].op
    /\ request_uri' = threads[h].uri
    /\ ret' = result
    /\ UNCHANGED prev
    /\ threads' = [threads EXCEPT ![h] = Idle]

\* The framework invokes a handler.
Start(h) ==
    /\ threads[h].pc = "idle"
    /\ ncalls < MaxCalls
    /\ ncalls' = ncalls + 1
    /\ \E call \in Calls :
           threads' = [threads EXCEPT ![h] = [Idle EXCEPT !.pc = call.pc,
                                                         !.op = call.op,
                                                         !.uri = call.uri]]
    /\ UNCHANGED <<Service, Returned, Ghosts, Fixed, flag_lock, logger_lock>>

\* get_lightbulb_status: self.light_state.lock().
StatusLock(h) ==
    /\ threads[h].pc = "status_lock"
    /\ flag_lock = NO_HOLDER
    /\ flag_lock' = h
    /\ threads' = Goto(h, "status_read")
    /\ UNCHANGED <<Service, Returned, Ghosts, Fixed, ncalls, logger_lock>>

\* get_lightbulb_status: `if *state`, and the return that drops the guard.
StatusRead(h) ==
    /\ threads[h].pc = "status_read"
    /\ Return(h, Ok(<<StatusOf(light_state)>>))
    /\ flag_lock' = Release(flag_lock, h)
    /\ UNCHANGED <<Service, Ghosts, Fixed, ncalls, logger_lock>>

\* change_lightbulb_state: self.light_state.lock().
ChangeLock(h) ==
    /\ threads[h].pc = "change_lock"
    /\ flag_lock = NO_HOLDER
    /\ flag_lock' = h
    /\ threads' = Goto(h, "change_check")
    /\ UNCHANGED <<Service, Returned, Ghosts, Fixed, ncalls, logger_lock>>

\* change_lightbulb_state: `if *state == target_state`.
ChangeCheck(h) ==
    /\ threads[h].pc = "change_check"
    /\ threads' = Goto(h, IF IsAlready(light_state,
                                       ChangeArgs(threads[h].op).target_state)
                          THEN "change_return" ELSE "change_set")
    /\ UNCHANGED <<Service, Returned, Ghosts, Fixed, ncalls, flag_lock,
                   logger_lock>>

\* change_lightbulb_state: `*state = target_state`. The handler remembers
\* which flip this is (flip).
ChangeSet(h) ==
    /\ threads[h].pc = "change_set"
    /\ light_state' = ChangeArgs(threads[h].op).target_state
    /\ flips' = Append(flips, ChangeArgs(threads[h].op).log_action)
    /\ threads' = [threads EXCEPT ![h].pc = "log_event_lock",
                                  ![h].flip = Len(flips) + 1]
    /\ flag_lock' = FlagGuardAfterSet(h)
    /\ UNCHANGED <<entries, file_exists, file_data, Returned, logged, Fixed,
                   ncalls, logger_lock>>

\* log_light_event: self.logger.lock().
LogEventLock(h) ==
    /\ threads[h].pc = "log_event_lock"
    /\ logger_lock = NO_HOLDER
    /\ logger_lock' = h
    /\ threads' = Goto(h, "log_event")
    /\ UNCHANGED <<Service, Returned, Ghosts, Fixed, ncalls, flag_lock>>

\* log_light_event: logger.log_event(action), and the return that drops
\* the guard on the logger.
LogEvent(h) ==
    /\ threads[h].pc = "log_event"
    /\ \E timestamp \in {Now}, io \in SomeIoOutcomes :
        LET log_action == ChangeArgs(threads[h].op).log_action
            r == LogLightEvent(logger_kind, entries, file_exists, file_data,
                               timestamp, log_action, io)
        IN  /\ entries' = r.entries
            /\ file_exists' = r.exists
            /\ file_data' = r.data
            /\ logged' = IF r.ok
                         THEN Append(logged, [timestamp |-> timestamp,
                                              action |-> log_action,
                                              flip |-> threads[h].flip])
                         ELSE logged
            /\ threads' = [threads EXCEPT
                              ![h].pc = "change_return",
                              ![h].log = [ok |-> r.ok, text |-> <<>>,
                                          err |-> r.err]]
    /\ logger_lock' = Release(logger_lock, h)
    /\ UNCHANGED <<light_state, Returned, flips, Fixed, ncalls, flag_lock>>

\* change_lightbulb_state returns (the `already` branch, the `?` on a
\* failed log write, or Ok(success_message)); its guard on the flag is
\* dropped.
ChangeReturn(h) ==
    /\ threads[h].pc = "change_return"
    /\ Return(h, IF threads[h].flip = 0
                 THEN Ok(<<ChangeArgs(threads[h].op).already_message>>)
                 ELSE ChangeResult(ChangeArgs(threads[h].op).success_message,
                                   threads[h].log.ok, threads[h].log.err))
    /\ flag_lock' = Release(flag_lock, h)
    /\ UNCHANGED <<Service, Ghosts, Fixed, ncalls, logger_lock>>

\* read_log_content: self.logger.lock().
ReadLock(h) ==
    /\ threads[h].pc = "read_lock"
    /\ logger_lock = NO_HOLDER
    /\ logger_lock' = h
    /\ threads' = Goto(h, "read_log")
    /\ UNCHANGED <<Service, Returned, Ghosts, Fixed, ncalls, flag_lock>>

\* read_log_content: logger.read_log() and the return that drops the guard.
\* read_resource("lightbulb://log") returns with what was read;
\* generate_usage_summary returns if the read failed or no line is left,
\* and goes on to the flag otherwise.
ReadLog(h) ==
    /\ threads[h].pc = "read_log"
    /\ \E read_fails \in BOOLEAN :
        LET log == ReadLogContent(logger_kind, entries, file_exists,
                                  file_data, read_fails)
        IN  IF threads[h].uri = LOG_URI
            THEN /\ Return(h, Ok(LogResource(log)))
                 /\ logger_lock' = Release(logger_lock, h)
            ELSE IF ~log.ok \/ NonBlankLines(log.text) = <<>>
            THEN /\ Return(h, Ok(UsageSummary(log, FALSE)))
                 /\ logger_lock' = Release(logger_lock, h)
            ELSE /\ threads' = [threads EXCEPT ![h].pc = "summary_lock",
                                               ![h].log = log]
                 /\ logger_lock' = LoggerGuardAfterRead(h)
                 /\ UNCHANGED Returned
    /\ UNCHANGED <<Service, Ghosts, Fixed, ncalls, flag_lock>>

\* generate_usage_summary: self.light_state.lock().
SummaryLock(h) ==
    /\ threads[h].pc = "summary_lock"
    /\ flag_lock = NO_HOLDER
    /\ flag_lock' = h
    /\ threads' = Goto(h, "summary_state")
    /\ UNCHANGED <<Service, Returned, Ghosts, Fixed, ncalls, logger_lock>>

\* generate_usage_summary: `if *current_state`, the format! over the log
\* content read earlier, and the return that drops what it holds.
SummaryState(h) ==
    /\ threads[h].pc = "summary_state"
    /\ Return(h, Ok(UsageSummary(threads[h].log, light_state)))
    /\ flag_lock' = Release(flag_lock, h)
    /\ logger_lock' = Release(logger_lock, h)
    /\ UNCHANGED <<Service, Ghosts, Fixed, ncalls>>

\* A step of the handler running in h.
Step(h) ==
    \/ StatusLock(h)
    \/ StatusRead(h)
    \/ ChangeLock(h)
    \/ ChangeCheck(h)
    \/ ChangeSet(h)
    \/ LogEventLock(h)
    \/ LogEvent(h)
    \/ ChangeReturn(h)
    \/ ReadLock(h)
    \/ ReadLog(h)
    \/ SummaryLock(h)
    \/ SummaryState(h)

NextConcurrent == \E h \in Handlers : Start(h) \/ Step(h)

\* main, or a test's new_with_in_memory_logger: a service on a log that
\* holds nothing yet.
InitConcurrent == Init /\ initial_data = <<>> /\ ~file_exists

\* Any interleaving of the handlers' steps.
SpecConcurrent == InitConcurrent /\ [][NextConcurrent]_vars

\* The same under a scheduler that lets every handler that can take a step
\* take one eventually (the runtime's worker threads keep running).
SpecFair == SpecConcurrent /\ \A h \in Handlers : WF_vars(Step(h))

\* ================================================================== claims

\* One log entry as the log holds it: [<timestamp>] Lightbulb turned
\* <direction>, and the line terminator.
LogLine(timestamp, direction) ==
    <<"[", timestamp, "]", " Lightbulb turned ", direction, "\n">>

\* s is a prefix of t.
IsPrefix(s, t) == Len(s) <= Len(t) /\ SubSeq(t, 1, Len(s)) = s

\* The direction a flag value is reached by.
DirectionOf(state) == IF state THEN "ON" ELSE "OFF"

\* The whole of the state a client can observe or a restart would find.
FlagAndLog == <<light_state, logger_kind, entries, file_exists, file_data>>

\* A step that is a call of turn_on (d = "ON") or turn_off (d = "OFF").
IsTransitionCall(d) ==
    op' = (IF d = "ON" THEN "turn_on_lightbulb" ELSE "turn_off_lightbulb")

\* The log_event call of this step returned Ok / the call made one that
\* returned Err.
WriteSucceeded == Len(logged') = Len(logged) + 1
WriteFailed(d) ==
    IsTransitionCall(d) /\ light_state # (d = "ON") /\ logged' = logged

\* C1: a turn_on/turn_off call either fully applies (the flag flips and its
\* log entry is appended) or leaves the flag as it was: no step changes the
\* flag without appending the entry of that flip to the log.
C1_FlipImpliesLogEntry ==
    [][light_state' # light_state =>
         \E ts \in Timestamps :
             LogText' = LogText \o LogLine(ts, DirectionOf(light_state'))]_vars

\* C2: for d in {ON, OFF}, a transition call made when the flag differs from
\* d and whose log write succeeds returns Ok with the "turned on/off
\* successfully" literal, sets the flag to d, and appends exactly one log
\* entry, of direction d, to the log.
C2_TransitionApplies ==
    [][\A d \in {"ON", "OFF"} :
         (IsTransitionCall(d) /\ light_state # (d = "ON") /\ WriteSucceeded)
         => /\ ret' = Ok(<<IF d = "ON" THEN "Lightbulb turned on successfully"
                           ELSE "Lightbulb turned off successfully">>)
            /\ light_state' = (d = "ON")
            /\ \E ts \in Timestamps : LogText' = LogText \o LogLine(ts, d)
            /\ logger_kind = "FileLogger" => file_exists'
            /\ logger_kind = "InMemoryLogger" => Len(entries') = Len(entries) + 1
      ]_vars

\* C2's case: a turn_off call has just turned the light off and logged it,
\* after a turn_on call that did the same.
C2_Witness ==
    /\ op = "turn_off_lightbulb"
    /\ ret = Ok(<<"Lightbulb turned off successfully">>)
    /\ prev.op = "turn_on_lightbulb"
    /\ prev.ret = Ok(<<"Lightbulb turned on successfully">>)
    /\ ~light_state
    /\ Len(logged) = 2

\* C3: for d in {ON, OFF}, a transition call made when the flag already
\* equals d returns Ok with the "already on/off" literal and changes
\* neither the flag nor the log; and a transition call that follows a call
\* of the same transition leaves flag and log as that call left them.
C3_AlreadyIsNoOp ==
    [][\A d \in {"ON", "OFF"} :
         /\ (IsTransitionCall(d) /\ light_state = (d = "ON"))
            => /\ ret' = Ok(<<IF d = "ON" THEN "The lightbulb is already on"
                              ELSE "The lightbulb is already off">>)
               /\ FlagAndLog' = FlagAndLog
         /\ (IsTransitionCall(d) /\ op' = op) => FlagAndLog' = FlagAndLog
      ]_vars

\* C3's case: turn_on has been called three times in a row on a log that
\* holds the one entry of the first call.
C3_Witness ==
    /\ ncalls = 3
    /\ op = "turn_on_lightbulb" /\ prev.op = "turn_on_lightbulb"
    /\ ret = Ok(<<"The lightbulb is already on">>) /\ prev.ret = ret
    /\ Len(logged) = 1 /\ Len(flips) = 1
    /\ light_state

\* C4: a get_status call that immediately follows a turn_on call that
\* returned Ok yields "The lightbulb is on", and one that immediately
\* follows a turn_off call that returned Ok yields "The lightbulb is off".
C4_StatusAfterTransition ==
    [][(op' = "get_lightbulb_status" /\ ret.ok)
         => /\ op = "turn_on_lightbulb" => ret' = Ok(<<"The lightbulb is on">>)
            /\ op = "turn_off_lightbulb" => ret' = Ok(<<"The lightbulb is off">>)
      ]_vars

\* C4's case: get_status has answered "on" right after a turn_on call that
\* returned Ok.
C4_Witness ==
    /\ op = "get_lightbulb_status"
    /\ ret = Ok(<<"The lightbulb is on">>)
    /\ prev.op = "turn_on_lightbulb" /\ prev.ret.ok

\* C4's other case: get_status has answered "off" right after a turn_off
\* call that turned the light off.
C4_WitnessOff ==
    /\ op = "get_lightbulb_status"
    /\ ret = Ok(<<"The lightbulb is off">>)
    /\ prev.op = "turn_off_lightbulb"
    /\ prev.ret = Ok(<<"Lightbulb turned off successfully">>)

\* C5: a newly constructed service has its flag false, with either logger
\* and whatever the log held before: as long as no call has changed the
\* flag, the flag is false and get_status returns "The lightbulb is off".
C5_InitiallyOff ==
    flips = <<>> =>
        /\ ~light_state
        /\ op = "get_lightbulb_status" => ret = Ok(<<"The lightbulb is off">>)

\* C5's case: get_status has answered on a service constructed over a log
\* whose last line is a "turned ON" of an earlier run.
C5_Witness ==
    /\ op = "get_lightbulb_status" /\ prev.op = "new"
    /\ ret = Ok(<<"The lightbulb is off">>)
    /\ logger_kind = "FileLogger" /\ file_exists
    /\ initial_data = LogLine(Rfc3339(1), "ON")

\* C5's case with the other logger.
C5_WitnessInMemory ==
    /\ op = "get_lightbulb_status" /\ prev.op = "new"
    /\ ret = Ok(<<"The lightbulb is off">>)
    /\ logger_kind = "InMemoryLogger"

\* C6: the directions of the entries appended to the log are, in order, the
\* directions of the transition calls that changed the flag; and on a fresh
\* service with an empty log, turn_on then turn_off (both returning Ok)
\* leave a log of exactly one "turned ON" line followed by one "turned OFF"
\* line.
C6_LogDirectionsAreFlips ==
    /\ [i \in 1..Len(logged) |-> logged[i].action] = flips
    /\ (/\ initial_data = <<>> /\ ncalls = 2
        /\ prev.op = "turn_on_lightbulb" /\ prev.ret.ok
        /\ op = "turn_off_lightbulb" /\ ret.ok)
       => \E t1 \in Timestamps, t2 \in Timestamps :
              LogText = LogLine(t1, "ON") \o LogLine(t2, "OFF")

\* C7: the log is append-only: over every step (get_status, turn_on,
\* turn_off, list_resources, read_resource of any uri, successful or
\* failed) the log before the step is a prefix of the log after it, and a
\* log file that exists still exists.
C7_AppendOnly ==
    [][/\ IsPrefix(LogText, LogText')
       /\ IsPrefix(file_data, file_data')
       /\ IsPrefix(entries, entries')
       /\ file_exists => file_exists']_vars

\* C7's case: a resource has been read from a file-backed log that holds an
\* entry of this run and the fragment of a failed write.
C7_Witness ==
    /\ op = "read_resource"
    /\ logger_kind = "FileLogger"
    /\ Len(logged) = 1 /\ Len(flips) = 2
    /\ Len(file_data) > Len(initial_data) + Len(LogLine("", ""))

\* The entries the successful log_event calls appended, as lines.
LoggedLines ==
    [i \in 1..Len(logged) |-> LogLine(logged[i].timestamp, logged[i].action)]

\* C8: after any sequence of successful appends (no failed one among them),
\* read_log returns what the log held at construction followed by exactly
\* the appended lines, in append order, each verbatim and ended by one line
\* terminator; on a log that was empty, the lines read back are the
\* appended lines. This holds for both loggers.
C8_RoundTrip ==
    (logged # <<>> /\ Len(logged) = Len(flips)) =>
        LET r == ReadLogContent(logger_kind, entries, file_exists, file_data,
                                FALSE)
        IN  /\ r.ok
            /\ r.text = initial_data \o Concat(LoggedLines)
            /\ initial_data = <<>> =>
                   /\ Len(Lines(r.text)) = Len(logged)
                   /\ \A i \in 1..Len(logged) :
                          Lines(r.text)[i] \o <<"\n">> = LoggedLines[i]

\* C8's case: the in-memory logger holds two entries, both appended
\* successfully.
C8_Witness ==
    /\ logger_kind = "InMemoryLogger"
    /\ Len(logged) = 2 /\ Len(flips) = 2

\* C8's case for the file-backed logger, on a log that held lines before.
C8_WitnessFile ==
    /\ logger_kind = "FileLogger"
    /\ initial_data # <<>>
    /\ Len(logged) = 2 /\ Len(flips) = 2

\* How many lines of a text are complete (ended by a terminator).
Terminators(text) == Cardinality({i \in 1..Len(text) : text[i] = "\n"})

\* C9: a transition call made when the flag differs from the target and
\* whose log write fails returns Err("Failed to log event: <cause>"), sets
\* the flag to the target all the same, and appends no log entry and makes
\* no second attempt (the log gains at most a proper part of one entry, and
\* no line terminator); a call of the same transition right after it
\* returns the "already on/off" literal and changes neither flag nor log.
C9_FailedWriteKeepsFlip ==
    [][\A d \in {"ON", "OFF"} :
         /\ WriteFailed(d)
            => /\ ~ret'.ok
               /\ \E cause \in {NOT_FOUND, PERMISSION_DENIED, NO_SPACE} :
                      ret' = Err(<<"Failed to log event: ", cause>>)
               /\ light_state' = (d = "ON")
               /\ \E ts \in Timestamps :
                      \E k \in 0..(Len(LogLine(ts, d)) - 1) :
                          LogText' = LogText \o SubSeq(LogLine(ts, d), 1, k)
               /\ Terminators(LogText') = Terminators(LogText)
         /\ (IsTransitionCall(d) /\ op' = op /\ ~ret.ok)
            => /\ ret' = Ok(<<IF d = "ON" THEN "The lightbulb is already on"
                              ELSE "The lightbulb is already off">>)
               /\ FlagAndLog' = FlagAndLog
      ]_vars

\* C9's case: turn_on failed to log, and the turn_on call after it answered
\* "already on" with the log still without an entry.
C9_Witness ==
    /\ op = "turn_on_lightbulb" /\ prev.op = "turn_on_lightbulb"
    /\ ~prev.ret.ok
    /\ ret = Ok(<<"The lightbulb is already on">>)
    /\ light_state
    /\ logged = <<>> /\ flips = <<"ON">>

\* C10: read_resource with a uri other than lightbulb://log and
\* lightbulb://summary returns the error of code -32602 and message
\* "Unknown resource URI", never a success, and changes neither the flag
\* nor the log.
C10_UnknownResource ==
    [][(op' = "read_resource"
          /\ request_uri' \notin {"lightbulb://log", "lightbulb://summary"})
         => /\ ret' = [ok |-> FALSE, text |-> <<"Unknown resource URI">>,
                       code |-> -32602]
            /\ FlagAndLog' = FlagAndLog
      ]_vars

\* C10's case: an unknown uri has been read on a service whose light is on
\* and whose log holds an entry.
C10_Witness ==
    /\ op = "read_resource"
    /\ request_uri = "lightbulb://status"
    /\ ~ret.ok /\ ret.code = -32602
    /\ light_state /\ logged # <<>>

\* The log cannot be read (a FileLogger whose file does not exist) / holds
\* no line that is not blank.
LogAbsent == logger_kind = "FileLogger" /\ ~file_exists
LogEmpty == \A i \in 1..Len(LogText) : LogText[i] \in {"\n", " "}

\* The placeholders of the two resources.
LogPlaceholders ==
    {<<"No lightbulb activity recorded yet.">>,
     <<"Lightbulb log file not found. No activity recorded yet.">>}
SummaryNotFound ==
    <<"Lightbulb Usage Summary:\n\nLog file not found. No activity recorded yet.">>
SummaryEmpty ==
    <<"Lightbulb Usage Summary:\n\nNo activity recorded yet.">>

\* C11: a failure to read the log is never surfaced to the caller of
\* read_resource: for lightbulb://log and lightbulb://summary the result is
\* a success in every state (log absent, empty, or not), and when the log
\* cannot be read or is empty its content is a "no activity" placeholder.
C11_ReadFailureRecovered ==
    [][(op' = "read_resource"
          /\ request_uri' \in {"lightbulb://log", "lightbulb://summary"})
         => /\ ret'.ok /\ ret'.code = 0
            /\ (LogAbsent \/ LogEmpty)
               => ret'.text \in
                      (IF request_uri' = "lightbulb://log" THEN LogPlaceholders
                       ELSE {SummaryNotFound, SummaryEmpty})
            /\ request_uri' = "lightbulb://log"
               => \/ ret'.text \in LogPlaceholders
                  \/ ret'.text = <<"Lightbulb Activity Log:\n\n">> \o LogText
      ]_vars

\* C11's case: lightbulb://log has been read while the log file did not
\* exist, and the placeholder came back as a success.
C11_Witness ==
    /\ op = "read_resource" /\ request_uri = "lightbulb://log"
    /\ LogAbsent
    /\ ret = Ok(<<"Lightbulb log file not found. No activity recorded yet.">>)

\* C11's case for the summary, over a file that exists and holds only a
\* blank line.
C11_WitnessSummary ==
    /\ op = "read_resource" /\ request_uri = "lightbulb://summary"
    /\ logger_kind = "FileLogger" /\ file_exists /\ file_data = <<"\n">>
    /\ ret = Ok(SummaryEmpty)

\* C12: generate_usage_summary over a log with no non-blank line never
\* fails: when reading the log fails it returns the literal ending "Log file
\* not found. No activity recorded yet.", when the log is readable it
\* returns the other literal ending "No activity recorded yet.", and in
\* neither case does it report counts or a status.
C12_SummaryOfNoActivity ==
    /\ \A read_fails \in BOOLEAN :
           LET log == ReadLogContent(logger_kind, entries, file_exists,
                                     file_data, read_fails)
               summary == UsageSummary(log, light_state)
           IN  /\ ~log.ok => summary = SummaryNotFound
               /\ (log.ok /\ LogEmpty) => summary = SummaryEmpty
    /\ SummaryNotFound # SummaryEmpty
    /\ (op = "read_resource" /\ request_uri = "lightbulb://summary")
       => /\ ret.ok
          /\ LogAbsent => ret.text = SummaryNotFound
          /\ LogEmpty => ret.text \in {SummaryNotFound, SummaryEmpty}

\* C12's case: the summary has been generated over a log that cannot be
\* read.
C12_Witness ==
    /\ op = "read_resource" /\ request_uri = "lightbulb://summary"
    /\ LogAbsent /\ ret = Ok(SummaryNotFound)

\* C12's case over a readable log without lines: the in-memory logger
\* before any transition.
C12_WitnessEmpty ==
    /\ op = "read_resource" /\ request_uri = "lightbulb://summary"
    /\ logger_kind = "InMemoryLogger" /\ entries = <<>>
    /\ ret = Ok(SummaryEmpty)

\* C17: get_status, list_resources and read_resource of lightbulb://log and
\* of lightbulb://summary leave the flag and the log unchanged in every
\* state, and get_status returns Ok with "The lightbulb is on" when the flag
\* is true and "The lightbulb is off" when it is false.
C17_ReadOnlyOperations ==
    [][/\ (\/ op' \in {"get_lightbulb_status", "list_resources"}
           \/ op' = "read_resource"
              /\ request_uri' \in {"lightbulb://log", "lightbulb://summary"})
          => FlagAndLog' = FlagAndLog
       /\ op' = "get_lightbulb_status"
          => ret' = Ok(<<IF light_state THEN "The lightbulb is on"
                         ELSE "The lightbulb is off">>)
      ]_vars

\* C17's case: the summary has been read after get_status on a service
\* whose light is on and whose log holds an entry.
C17_Witness ==
    /\ op = "read_resource" /\ request_uri = "lightbulb://summary"
    /\ prev.op = "get_lightbulb_status"
    /\ prev.ret = Ok(<<"The lightbulb is on">>)
    /\ light_state /\ logged # <<>>

\* ------------------------------------------------ the fields of a summary

\* The last read_resource call returned a rendered summary (not one of the
\* "no activity" literals).
SummaryRead ==
    /\ op = "read_resource" /\ request_uri = "lightbulb://summary"
    /\ ret.ok /\ Len(ret.text) > 1

\* The non-blank lines of the log that summary was generated over (a read
\* does not change the log).
SummarisedLines == NonBlankLines(LogText)

\* A line contains "turned ON" (d = "ON") / "turned OFF" (d = "OFF").
HasDirection(line, d) ==
    \E i \in 1..(Len(line) - 1) :
        line[i] = " Lightbulb turned " /\ line[i + 1] = d

HowMany(lines, d) ==
    Cardinality({i \in 1..Len(lines) : HasDirection(lines[i], d)})

\* Where a token first stands in a text (0: nowhere).
IndexOf(text, token) ==
    IF \E i \in 1..Len(text) : text[i] = token
    THEN CHOOSE i \in 1..Len(text) :
             text[i] = token /\ \A j \in 1..(i - 1) : text[j] # token
    ELSE 0

\* The template's fields, by the literal pieces around them.
ReportedStatus == ret.text[2]
ReportedTotal == ret.text[4]
ReportedOn == ret.text[6]
ReportedOnPercent == ret.text[8]
ReportedOff == ret.text[10]
ReportedOffPercent == ret.text[12]
ReportedFirst ==
    SubSeq(ret.text, 14, IndexOf(ret.text, "\n- Last action: ") - 1)
ReportedLast ==
    SubSeq(ret.text, IndexOf(ret.text, "\n- Last action: ") + 1,
           IndexOf(ret.text, "\n\nRecent Activity (last 5 actions):\n") - 1)
ReportedRecent ==
    SubSeq(ret.text,
           IndexOf(ret.text, "\n\nRecent Activity (last 5 actions):\n") + 1,
           Len(ret.text))

\* text is count/total * 100 written with one decimal, rounded: a number of
\* tenths t within half a tenth of the exact value.
IsPercentOf(text, count, total) ==
    \E t \in 0..1000 :
        /\ text = ToString(t \div 10) \o "." \o ToString(t % 10)
        /\ 2 * (t * total - 1000 * count) <= total
        /\ 2 * (1000 * count - t * total) <= total

\* What C13 says of one summary, but for the sum of the counts.
C13_Counts ==
    LET N == Len(SummarisedLines)
        k == HowMany(SummarisedLines, "ON")
        m == HowMany(SummarisedLines, "OFF")
    IN  /\ N >= 1
        /\ ReportedTotal = ToString(N)
        /\ ReportedOn = ToString(k)
        /\ ReportedOff = ToString(m)
        /\ IsPercentOf(ReportedOnPercent, k, N)
        /\ IsPercentOf(ReportedOffPercent, m, N)

\* The ON and OFF counts of the summarised log sum to its total.
CountsSumToTotal ==
    HowMany(SummarisedLines, "ON") + HowMany(SummarisedLines, "OFF")
        = Len(SummarisedLines)

C13_WitnessOwnLog ==
    /\ SummaryRead
    /\ initial_data = <<>> /\ Len(logged) = 2 /\ Len(flips) = 2
    /\ ReportedTotal = "2" /\ ReportedOn = "1" /\ ReportedOff = "1"

\* C14: the "Recent Activity" section of a summary over N non-blank lines
\* lists exactly min(5, N) lines: the last min(5, N) lines of the log, in
\* their order in the log, each after two spaces.
C14_RecentIsTail ==
    SummaryRead =>
        LET N == Len(SummarisedLines)
            n == IF N < 5 THEN N ELSE 5
            shown == Lines(ReportedRecent)
        IN  /\ Len(shown) = n
            /\ \A i \in 1..n : shown[i] = <<"  ">> \o SummarisedLines[N - n + i]

\* C14's case: a summary over six non-blank lines, the first of which
\* differs from the second, so that five are shown and the oldest is not.
C14_Witness ==
    /\ SummaryRead
    /\ Len(SummarisedLines) = 6
    /\ SummarisedLines[1] # SummarisedLines[2]
    /\ SummarisedLines[2] # SummarisedLines[6]
    /\ Len(Lines(ReportedRecent)) = 5

\* The timestamp C18 describes for a line: the text before the first "]"
\* without the leading "[", and the empty text when the line has no "]".
TimestampAsClaimed(line) ==
    LET close == IndexOf(line, "]")
        before == SubSeq(line, 1, close - 1)
    IN  IF close = 0 THEN <<>>
        ELSE IF before # <<>> /\ before[1] = "[" THEN Tail(before)
        ELSE before

\* C18: the timestamps a summary reports for the first and the last log
\* line are the text before the line's first "]" with the leading "["
\* stripped, and the empty string for a line that contains no "]".
C18_TimestampExtraction ==
    SummaryRead =>
        /\ ReportedFirst = TimestampAsClaimed(SummarisedLines[1])
        /\ ReportedLast =
               TimestampAsClaimed(SummarisedLines[Len(SummarisedLines)])

\* ------------------------------------------------------------------- C15

\* Read now, the two services give the same read_log result, the same
\* summary and the same lightbulb://log content, and the call made last
\* returned the same on both.
BackendsAgree ==
    /\ ReadLogOfFile = ReadLogOfMemory
    /\ UsageSummary(ReadLogOfFile, light_state)
           = UsageSummary(ReadLogOfMemory, twin.light_state)
    /\ LogResource(ReadLogOfFile) = LogResource(ReadLogOfMemory)
    /\ ret = twin.ret

\* C15 as claimed: after every sequence of operations, the empty one
\* included, made on a service with a FileLogger starting from no log file
\* and on one with an InMemoryLogger, with equal timestamps and no write
\* failure, read_log, generate_usage_summary and lightbulb://log yield the
\* same on both.
C15_BackendsAgreeAsClaimed == twin.present => BackendsAgree

\* C15 as amended: they yield the same once the log file exists, that is
\* after every sequence of operations of which one is a transition.
C15_BackendsAgree == (twin.present /\ file_exists) => BackendsAgree

\* C15's case: the summary read on both after an ON and an OFF.
C15_Witness ==
    /\ twin.present /\ file_exists
    /\ op = "read_resource" /\ request_uri = "lightbulb://summary"
    /\ Len(entries) = 2 /\ Len(twin.ret.text) > 1
    /\ ret = twin.ret

\* The case C15 as claimed is wrong about: the summary read on both before
\* any transition.
C15_WitnessBeforeAnyTransition ==
    /\ twin.present /\ ~file_exists
    /\ op = "read_resource" /\ request_uri = "lightbulb://summary"
    /\ ret # twin.ret

\* ----------------------------------------------------- C16, C19 and C20

\* Where a handler is inside change_lightbulb_state's region under the
\* flag's Mutex: from the check to the return.
InTransition(h) ==
    threads[h].pc \in {"change_check", "change_set", "log_event_lock",
                       "log_event", "change_return"}

\* h has flipped the flag and its log write has not ended.
FlippedNotLogged(h) == threads[h].pc \in {"log_event_lock", "log_event"}

\* h is at a step that reads or writes the flag.
AtFlag(h) ==
    threads[h].pc \in {"status_read", "change_check", "change_set",
                       "summary_state"}

\* h waits for the Mutex of the flag / of the logger.
WaitsFlag(h) ==
    threads[h].pc \in {"status_lock", "change_lock", "summary_lock"}
WaitsLogger(h) == threads[h].pc \in {"log_event_lock", "read_lock"}

\* The entries of the log are in the order of the flips they record.
LogInFlipOrder ==
    /\ \A i \in 1..Len(logged) :
           /\ logged[i].flip \in 1..Len(flips)
           /\ flips[logged[i].flip] = logged[i].action
    /\ \A i, j \in 1..Len(logged) :
           i < j => logged[i].flip < logged[j].flip

\* C16: under any interleaving of the handlers, the check, the flip and the
\* log append of a transition are one critical section under the flag's
\* Mutex: no two transitions are in it at once (so no two log appends
\* overlap), between a flip and the end of its log write the flipping
\* handler holds the Mutex and no other handler is at a read or write of
\* the flag, and the log's entries are in the order of the flips.
C16_OneCriticalSection ==
    /\ \A h, g \in Handlers : (InTransition(h) /\ InTransition(g)) => h = g
    /\ \A h \in Handlers : InTransition(h) => flag_lock = h
    /\ \A h, g \in Handlers :
           (FlippedNotLogged(h) /\ g # h) => ~AtFlag(g)
    /\ LogInFlipOrder

\* C16's case: a second flip has been logged, and while a handler is
\* between its flip and its log write the other waits for the flag.
C16_Witness ==
    /\ Len(logged) = 1
    /\ \E h, g \in Handlers :
           /\ FlippedNotLogged(h) /\ threads[h].flip = 2
           /\ WaitsFlag(g) /\ threads[g].op = "turn_on_lightbulb"

\* No handler waits for a Mutex in a cycle: none for one it holds itself,
\* and no two for the one the other holds.
NoWaitCycle ==
    /\ \A h \in Handlers :
           /\ ~(WaitsFlag(h) /\ flag_lock = h)
           /\ ~(WaitsLogger(h) /\ logger_lock = h)
    /\ \A h, g \in Handlers :
           ~(/\ flag_lock = h /\ WaitsLogger(h)
             /\ logger_lock = g /\ WaitsFlag(g))

\* A handler that has returned holds no Mutex.
ReturnedHoldsNothing ==
    \A h \in Handlers :
        threads[h].pc = "idle" => (flag_lock # h /\ logger_lock # h)

\* C19: with the two Mutexes and handlers running concurrently, under fair
\* scheduling every started handler eventually returns, also after a log
\* write or read failed; no handlers wait for each other's Mutex in a
\* cycle; a handler that returned, failed or not, holds no Mutex.
C19_EveryHandlerReturns ==
    /\ [](NoWaitCycle /\ ReturnedHoldsNothing)
    /\ \A h \in Handlers :
           (threads[h].pc # "idle") ~> (threads[h].pc = "idle")

\* C19's case: a transition whose log write failed has returned, and a
\* transition started after it holds the flag and waits for the logger,
\* which a reader holds.
C19_Witness ==
    /\ ~ret.ok /\ op \in {"turn_on_lightbulb", "turn_off_lightbulb"}
    /\ \E h, g \in Handlers :
           /\ flag_lock = h /\ WaitsLogger(h)
           /\ logger_lock = g /\ threads[g].pc = "read_log"

\* No log write has failed: every flip is in the log or its write is still
\* to come.
NoWriteFailed ==
    Len(flips) = Len(logged)
        + Cardinality({h \in Handlers : FlippedNotLogged(h)})

\* The direction of the last line a rendered summary lists.
ReportedLastDirection == ret.text[Len(ret.text)]

\* C20: a summary generated while transitions run concurrently is a
\* consistent snapshot: with no log write failed and a log written only by
\* this service, the Current Status it reports is the direction of the
\* last log line it summarised.
C20_SummaryIsSnapshot ==
    (SummaryRead /\ initial_data = <<>> /\ NoWriteFailed)
        => ReportedStatus = ReportedLastDirection

====
